---- MODULE Spec2Model ----
(***************************************************************************)
(* Model of gen.go, the generator of the ipv4 package's IANA constants:    *)
(* main fetches two registries, each parse function decodes one registry   *)
(* document, canonicalizes its records and prints declarations into a      *)
(* buffer, and the formatted buffer is written to standard output.         *)
(*                                                                         *)
(* A Go string is a sequence of one-character strings.  A Go int is a      *)
(* record [neg, mag], mag being the decimal digits of the magnitude        *)
(* without leading zeros, because 64-bit values do not fit TLC's integers. *)
(***************************************************************************)
EXTENDS Integers, Sequences, FiniteSets, TLC

\* pc: where main is (or which parse function was called alone); ri: the index
\* of the registry in the loop; resp: the response of the last http.Get; bb: the
\* lines in the buffer; stdout, stderr: what was written to them; exitCode: the
\* exit status, -1 while the process runs; bodies: each registry's response
\* body, "none", "open" or "closed"; deferred: the stack of deferred Close
\* calls; arg, w: the document given to a parse function called alone and
\* what the function returned and wrote.
VARIABLES pc, ri, resp, bb, stdout, stderr, exitCode, bodies, deferred, arg, w

vars == <<pc, ri, resp, bb, stdout, stderr, exitCode, bodies, deferred, arg, w>>

\* ------------------------------------------------------------ bounds
\* Longest label (description, name), counted in fragments.
MaxFrags == 3
\* Longest value text, counted in fragments.
MaxValFrags == 3
\* Most sub-registries of a document, and most records of a sub-registry.
MaxRegs == 2
MaxRecs == 3

\* ------------------------------------------------------------ strings
Min(S) == CHOOSE x \in S : \A y \in S : x <= y
Max(S) == CHOOSE x \in S : \A y \in S : x >= y

RECURSIVE Flatten(_)
Flatten(ss) == IF ss = <<>> THEN <<>> ELSE Head(ss) \o Flatten(Tail(ss))

\* strings.HasPrefix(s[i-1:], p), i counted from 1
HasPrefixAt(s, i, p) ==
    /\ i + Len(p) - 1 <= Len(s)
    /\ \A k \in 1..Len(p) : s[i + k - 1] = p[k]

\* strings.Contains(s, p)
Contains(s, p) == \E i \in 1..(Len(s) - Len(p) + 1) : HasPrefixAt(s, i, p)

\* unicode.IsSpace, on the characters the model uses
WhiteSpace == {" ", "\t", "\n", "\r", "\f"}

\* strings.TrimSpace(s)
TrimSpace(s) ==
    LET keep == {i \in 1..Len(s) : s[i] \notin WhiteSpace}
    IN  IF keep = {} THEN <<>> ELSE SubSeq(s, Min(keep), Max(keep))

\* strings.Split(s, c) for a one-character separator c
RECURSIVE Split(_, _)
Split(s, c) ==
    LET at == {i \in 1..Len(s) : s[i] = c}
    IN  IF at = {} THEN <<s>>
        ELSE <<SubSeq(s, 1, Min(at) - 1)>> \o Split(SubSeq(s, Min(at) + 1, Len(s)), c)

\* strings.Join(ss, sep)
RECURSIVE Join(_, _)
Join(ss, sep) ==
    IF ss = <<>> THEN <<>>
    ELSE IF Len(ss) = 1 THEN ss[1]
    ELSE ss[1] \o sep \o Join(Tail(ss), sep)

UpperCase == <<"A","B","C","D","E","F","G","H","I","J","K","L","M","N","O","P","Q","R","S","T","U","V","W","X","Y","Z">>
LowerCase == <<"a","b","c","d","e","f","g","h","i","j","k","l","m","n","o","p","q","r","s","t","u","v","w","x","y","z">>
DigitChars == <<"0","1","2","3","4","5","6","7","8","9">>
Range(f) == {f[i] : i \in DOMAIN f}

ToLowerChar(c) ==
    IF c \in Range(UpperCase)
    THEN LowerCase[CHOOSE i \in 1..26 : UpperCase[i] = c]
    ELSE c

\* strings.ToLower(s)
ToLower(s) == [i \in 1..Len(s) |-> ToLowerChar(s[i])]

\* strings.NewReplacer(pairs...).Replace(s): one pass over s from left to
\* right; at each position the pairs are compared in argument order and the
\* first whose old string matches there is applied, the scan resuming after
\* the matched text (a replacement is never scanned again); where no pair
\* matches the character is copied.
RECURSIVE ReplaceFrom(_, _, _)
ReplaceFrom(pairs, s, i) ==
    IF i > Len(s) THEN <<>>
    ELSE LET hit == {k \in 1..Len(pairs) : HasPrefixAt(s, i, pairs[k][1])}
         IN  IF hit = {} THEN <<s[i]>> \o ReplaceFrom(pairs, s, i + 1)
             ELSE pairs[Min(hit)][2]
                    \o ReplaceFrom(pairs, s, i + Len(pairs[Min(hit)][1]))

\* A replacer that applies its pairs one after the other, each to the whole
\* output of the one before.
RECURSIVE ReplaceInSequence(_, _)
ReplaceInSequence(pairs, s) ==
    IF pairs = <<>> THEN s
    ELSE ReplaceInSequence(Tail(pairs), ReplaceFrom(<<Head(pairs)>>, s, 1))

ReplacerReplace(pairs, s) == ReplaceFrom(pairs, s, 1)

\* ------------------------------------------------------------ strconv.Atoi
Zero == [neg |-> FALSE, mag |-> <<0>>]
MaxInt64Mag == <<9,2,2,3,3,7,2,0,3,6,8,5,4,7,7,5,8,0,7>>
MinInt64Mag == <<9,2,2,3,3,7,2,0,3,6,8,5,4,7,7,5,8,0,8>>
MaxUint64Mag == <<1,8,4,4,6,7,4,4,0,7,3,7,0,9,5,5,1,6,1,5>>

DigitVal(c) == (CHOOSE i \in 1..10 : DigitChars[i] = c) - 1

\* The magnitude a digit string denotes: its digits without leading zeros.
Magnitude(ds) ==
    LET nz == {i \in 1..Len(ds) : ds[i] # "0"}
    IN  IF nz = {} THEN <<0>>
        ELSE [i \in 1..(Len(ds) - Min(nz) + 1) |-> DigitVal(ds[Min(nz) + i - 1])]

\* a > b, on magnitudes
MagGreater(a, b) ==
    \/ Len(a) > Len(b)
    \/ /\ Len(a) = Len(b)
       /\ \E i \in 1..Len(a) : a[i] > b[i] /\ \A j \in 1..(i - 1) : a[j] = b[j]

\* strconv.Atoi(s) on a 64-bit int: [val, err], err one of "nil", "syntax",
\* "range".  ParseUint reads the digits from the left and stops at the first
\* character that is no digit (syntax error, value 0) or at the first digit
\* with which the number passes 2^64-1 (range error); ParseInt clamps what
\* is out of the int64 range to the nearest bound and reports a range error.
Atoi(s) ==
    LET signed == s # <<>> /\ s[1] \in {"+", "-"}
        neg    == s # <<>> /\ s[1] = "-"
        ds     == IF signed THEN Tail(s) ELSE s
        bad    == {i \in 1..Len(ds) : ds[i] \notin Range(DigitChars)}
        upto   == IF bad = {} THEN Len(ds) ELSE Min(bad) - 1
        mag    == Magnitude(SubSeq(ds, 1, upto))
        maxInt == [neg |-> FALSE, mag |-> MaxInt64Mag]
        minInt == [neg |-> TRUE, mag |-> MinInt64Mag]
    IN  IF ds = <<>> THEN [val |-> Zero, err |-> "syntax"]
        ELSE IF MagGreater(mag, MaxUint64Mag)
             THEN [val |-> IF neg THEN minInt ELSE maxInt, err |-> "range"]
        ELSE IF bad # {} THEN [val |-> Zero, err |-> "syntax"]
        ELSE IF ~neg /\ MagGreater(mag, MaxInt64Mag) THEN [val |-> maxInt, err |-> "range"]
        ELSE IF neg /\ MagGreater(mag, MinInt64Mag) THEN [val |-> minInt, err |-> "range"]
        ELSE [val |-> [neg |-> neg /\ mag # <<0>>, mag |-> mag], err |-> "nil"]

\* ------------------------------------------------------------ documents
\* A response body: wf says the bytes are well-formed XML, root is the name
\* of the document element, and the rest is what the two decoders read: the
\* title, the update date and the nested <registry> elements, each with its
\* title and its <record> elements (value, name, description).
NoBody == [wf |-> FALSE, root |-> "", title |-> <<>>, updated |-> <<>>, regs |-> <<>>]

\* dec.Decode(&icp): the fields of icmpv4Parameters
DecodeICMP(body) ==
    IF ~body.wf \/ body.root # "registry" THEN [err |-> TRUE]
    ELSE [err |-> FALSE,
          Title |-> body.title,
          Updated |-> body.updated,
          Registries |->
            [i \in 1..Len(body.regs) |->
               [Title |-> body.regs[i].title,
                Records |->
                  [j \in 1..Len(body.regs[i].records) |->
                     [Value |-> body.regs[i].records[j].value,
                      Descr |-> body.regs[i].records[j].descr]]]]]

\* dec.Decode(&pn): the fields of protocolNumbers that the program reads;
\* the path registry>record gathers the records of every nested registry.
DecodeProtocol(body) ==
    IF ~body.wf \/ body.root # "registry" THEN [err |-> TRUE]
    ELSE [err |-> FALSE,
          Title |-> body.title,
          Updated |-> body.updated,
          Records |->
            Flatten([i \in 1..Len(body.regs) |->
               [j \in 1..Len(body.regs[i].records) |->
                  [Value |-> body.regs[i].records[j].value,
                   Name  |-> body.regs[i].records[j].name,
                   Descr |-> body.regs[i].records[j].descr]]])]

\* ------------------------------------------------------------ ICMP
\* The pairs of sr without the last one.
icmpReplacementsWithoutSpace ==
    << <<<<"M","e","s","s","a","g","e","s">>, <<>> >>, <<<<"M","e","s","s","a","g","e">>, <<>> >>, <<<<"I","C","M","P">>, <<>> >>,
       <<<<"+">>, <<"P">>>>, <<<<"-">>, <<>> >>, <<<<"/">>, <<>> >>, <<<<".">>, <<>> >> >>

\* sr := strings.NewReplacer(...) of icmpv4Parameters.escape
icmpReplacements ==
    << <<<<"M","e","s","s","a","g","e","s">>, <<>> >>, <<<<"M","e","s","s","a","g","e">>, <<>> >>, <<<<"I","C","M","P">>, <<>> >>,
       <<<<"+">>, <<"P">>>>, <<<<"-">>, <<>> >>, <<<<"/">>, <<>> >>, <<<<".">>, <<>> >>,
       <<<<" ">>, <<>> >> >>

\* The test of the first loop of escape on a sub-registry's title.
TitleMatches(title) == Contains(title, <<"T","y","p","e">>) \/ Contains(title, <<"t","y","p","e">>)

\* The first loop of escape without its break.
PickLastRegistry(regs) ==
    LET ids == {i \in 1..Len(regs) : TitleMatches(regs[i].Title)}
    IN  IF ids = {} THEN 0 ELSE Max(ids)

\* The first loop of escape: the sub-registry it picks, 0 standing for id = -1.
PickRegistry(regs) ==
    LET ids == {i \in 1..Len(regs) : TitleMatches(regs[i].Title)}
    IN  IF ids = {} THEN 0 ELSE Min(ids)

\* The test without its last operand.
icmpSkippedNoLowerCase(descr) ==
    \/ Contains(descr, <<"R","e","s","e","r","v","e","d">>)
    \/ Contains(descr, <<"U","n","a","s","s","i","g","n","e","d">>)
    \/ Contains(descr, <<"D","e","p","r","e","c","a","t","e","d">>)
    \/ Contains(descr, <<"E","x","p","e","r","i","m","e","n","t">>)

\* The test that makes escape leave a record as the zero value.
icmpSkipped(descr) ==
    \/ Contains(descr, <<"R","e","s","e","r","v","e","d">>)
    \/ Contains(descr, <<"U","n","a","s","s","i","g","n","e","d">>)
    \/ Contains(descr, <<"D","e","p","r","e","c","a","t","e","d">>)
    \/ Contains(descr, <<"E","x","p","e","r","i","m","e","n","t">>)
    \/ Contains(descr, <<"e","x","p","e","r","i","m","e","n","t">>)

\* The lines of a description joined with one space.
JoinLines(descr) ==
    LET ss == Split(descr, "\n")
    IN  IF Len(ss) > 1 THEN Join(ss, <<" ">>) ELSE ss[1]

\* sr.Replace(s), were the pairs applied one after the other.
icmpReplaceInSequence(s) == ReplaceInSequence(icmpReplacements, s)

\* sr.Replace(s)
icmpReplace(s) == ReplacerReplace(icmpReplacements, s)

\* One pass of the second loop of escape: prs[i] for the record pr.
canonICMPv4ParamRecord(pr) ==
    IF icmpSkipped(pr.Descr)
    THEN [OrigDescr |-> <<>>, Descr |-> <<>>, Value |-> Zero]
    ELSE LET s == TrimSpace(JoinLines(pr.Descr))
         IN  [OrigDescr |-> s, Descr |-> icmpReplace(s), Value |-> Atoi(pr.Value).val]

\* icp.escape()
icmpEscape(icp) ==
    LET id == PickRegistry(icp.Registries)
    IN  IF id = 0 THEN <<>>
        ELSE [i \in 1..Len(icp.Registries[id].Records) |->
                canonICMPv4ParamRecord(icp.Registries[id].Records[i])]

Header(title, updated) == [kind |-> "header", title |-> title, updated |-> updated]

icmpConstLine(pr) ==
    [kind |-> "icmpConst", name |-> <<"I","C","M","P","T","y","p","e">> \o pr.Descr, value |-> pr.Value,
     comment |-> pr.OrigDescr]

icmpMapLine(pr) ==
    [kind |-> "icmpMap", value |-> pr.Value, text |-> ToLower(pr.OrigDescr)]

\* if pr.Descr == "" { continue }, in the loop of the constants
icmpKept(pr) == pr.Descr # <<>>

\* The loop of the lookup entries without its continue.
icmpMapKeptAlways(pr) == TRUE

\* if pr.Descr == "" { continue }, in the loop of the lookup entries
icmpMapKept(pr) == pr.Descr # <<>>

\* The first loop over prs: a constant for every record kept.
icmpConstLines(prs) ==
    LET kept == SelectSeq(prs, icmpKept)
    IN  [i \in 1..Len(kept) |-> icmpConstLine(kept[i])]

\* The second loop over prs: a lookup entry for every record kept.
icmpMapLines(prs) ==
    LET kept == SelectSeq(prs, icmpMapKept)
    IN  [i \in 1..Len(kept) |-> icmpMapLine(kept[i])]

\* parseICMPv4Parameters(w, r): [err, out], out being what was written to w
parseICMPv4Parameters(body) ==
    LET icp == DecodeICMP(body)
        prs == icmpEscape(icp)
    IN  IF icp.err THEN [err |-> TRUE, out |-> <<>>]
        ELSE [err |-> FALSE,
              out |-> <<Header(icp.Title, icp.Updated), [kind |-> "constOpen"]>>
                      \o icmpConstLines(prs)
                      \o <<[kind |-> "constClose"], [kind |-> "blank"],
                           Header(icp.Title, icp.Updated), [kind |-> "mapOpen"]>>
                      \o icmpMapLines(prs)
                      \o <<[kind |-> "mapClose"]>>]

\* ------------------------------------------------------------ protocol numbers
\* sr := strings.NewReplacer(...) of protocolNumbers.escape
protocolReplacements ==
    << <<<<"-","i","n","-">>, <<"i","n">>>>, <<<<"-","w","i","t","h","i","n","-">>, <<"w","i","t","h","i","n">>>>, <<<<"-","o","v","e","r","-">>, <<"o","v","e","r">>>>,
       <<<<"+">>, <<"P">>>>, <<<<"-">>, <<>> >>, <<<<"/">>, <<>> >>, <<<<".">>, <<>> >>,
       <<<<" ">>, <<>> >> >>

TrimEach(ss) == [i \in 1..Len(ss) |-> TrimSpace(ss[i])]

\* The description of a protocol record: each line trimmed, then joined.
protocolDescr(descr) ==
    LET ss == TrimEach(Split(descr, "\n"))
    IN  IF Len(ss) > 1 THEN Join(ss, <<" ">>) ELSE ss[1]

\* The switch of escape, were it on the trimmed name s instead of pr.Name.
protocolNameSwitchOnTrimmed(name) ==
    LET s == TrimSpace(name)
    IN  IF s = <<"I","S","I","S"," ","o","v","e","r"," ","I","P","v","4">> THEN <<"I","S","I","S">>
        ELSE IF s = <<"m","a","n","e","t">> THEN <<"M","A","N","E","T">>
        ELSE ReplacerReplace(protocolReplacements, s)

\* The switch of escape on pr.Name.
protocolName(name) ==
    LET s == TrimSpace(name)
    IN  IF name = <<"I","S","I","S"," ","o","v","e","r"," ","I","P","v","4">> THEN <<"I","S","I","S">>
        ELSE IF name = <<"m","a","n","e","t">> THEN <<"M","A","N","E","T">>
        ELSE ReplacerReplace(protocolReplacements, s)

\* One pass of the loop of escape: prs[i] for the record pr.
canonProtocolRecord(pr) ==
    [OrigName |-> pr.Name, Name |-> protocolName(pr.Name),
     Descr |-> protocolDescr(pr.Descr), Value |-> Atoi(pr.Value).val]

\* pn.escape()
protocolEscape(pn) == [i \in 1..Len(pn.Records) |-> canonProtocolRecord(pn.Records[i])]

\* The record parseProtocolNumbers adds to the decoded ones.
pseudoIP ==
    [OrigName |-> <<>>, Name |-> <<"I","P">>,
     Descr |-> <<"I","P","v","4"," ","e","n","c","a","p","s","u","l","a","t","i","o","n",","," ","p","s","e","u","d","o"," ","p","r","o","t","o","c","o","l"," ","n","u","m","b","e","r">>, Value |-> Zero]

\* The record added after the decoded ones.
WithPseudoIPLast(prs) == prs \o <<pseudoIP>>

\* prs = append([]canonProtocolRecord{{...}}, prs...)
WithPseudoIP(prs) == <<pseudoIP>> \o prs

protocolConstLine(pr) ==
    [kind |-> "protocolConst", name |-> <<"i","a","n","a","P","r","o","t","o","c","o","l">> \o pr.Name, value |-> pr.Value,
     comment |-> IF pr.Descr = <<>> THEN pr.OrigName ELSE pr.Descr]

\* if pr.Name == "" { continue }
protocolKept(pr) == pr.Name # <<>>

\* The loop over prs: a constant for every record kept.
protocolConstLines(prs) ==
    LET kept == SelectSeq(prs, protocolKept)
    IN  [i \in 1..Len(kept) |-> protocolConstLine(kept[i])]

\* parseProtocolNumbers(w, r): [err, out], out being what was written to w
parseProtocolNumbers(body) ==
    LET pn  == DecodeProtocol(body)
        prs == WithPseudoIP(protocolEscape(pn))
    IN  IF pn.err THEN [err |-> TRUE, out |-> <<>>]
        ELSE [err |-> FALSE,
              out |-> <<Header(pn.Title, pn.Updated), [kind |-> "constOpen"]>>
                      \o protocolConstLines(prs)
                      \o <<[kind |-> "constClose"]>>]

\* ------------------------------------------------------------ inputs
\* Every concatenation of at most n fragments of F.
RECURSIVE FragStrings(_, _)
FragStrings(F, n) ==
    IF n = 0 THEN {<<>>}
    ELSE LET shorter == FragStrings(F, n - 1)
         IN  shorter \cup {f \o s : f \in F, s \in shorter}

icmpFrags ==
    {<<"M","e","s","s","a","g","e","s">>, <<"M","e","s","s","a","g","e">>, <<"M","e","s">>, <<"a","g","e">>, <<"I","C">>, <<"M","P">>,
     <<"+">>, <<"-">>, <<"/",".">>, <<" ">>, <<"\n">>}

protocolFrags ==
    {<<"-","i","n","-">>, <<"-","w","i","t","h","i","n","-">>, <<"-","o","v","e","r","-">>, <<"i","n">>, <<"I","S","I","S"," ","o","v","e","r"," ","I","P","v","4">>, <<"m","a","n","e","t">>,
     <<"+">>, <<"-">>, <<"/",".">>, <<" ">>}

filterWords ==
    {<<"R","e","s","e","r","v","e","d">>, <<"U","n","a","s","s","i","g","n","e","d">>, <<"D","e","p","r","e","c","a","t","e","d">>, <<"E","x","p","e","r","i","m","e","n","t">>, <<"e","x","p","e","r","i","m","e","n","t">>,
     <<"E","X","P","E","R","I","M","E","N","T">>, <<"e","X","p","e","r","i","m","e","n","t">>}

Labels ==
    FragStrings(icmpFrags, MaxFrags) \cup FragStrings(protocolFrags, MaxFrags)
    \cup {a \o x \o b : a \in FragStrings(icmpFrags, 1), x \in filterWords,
                        b \in FragStrings(icmpFrags, 1)}

valueFrags ==
    {<<"-">>, <<"+">>, <<"0">>, <<"8">>, <<"x">>, <<"9","2","2","3","3","7","2","0","3","6","8","5","4","7","7","5","8","0">>, <<"1","8","4","4","6","7","4","4","0","7","3","7","0","9","5","5","1","6","1">>}

ValueTexts == FragStrings(valueFrags, MaxValFrags)

Record(v, l) == [value |-> v, name |-> l, descr |-> l]

RegistryDoc(regs) ==
    [wf |-> TRUE, root |-> "registry", title |-> <<"R","e","g","i","s","t","r","y">>, updated |-> <<"2","0","1","3","-","0","7","-","1","1">>,
     regs |-> regs]

\* Documents of one sub-registry with one record, for every label.
LabelBodies ==
    {RegistryDoc(<<[title |-> <<"I","C","M","P"," ","T","y","p","e"," ","N","u","m","b","e","r","s">>, records |-> <<Record(<<"3">>, l)>>]>>) :
        l \in Labels}

\* Documents of one sub-registry with one record, for every value text.
ValueBodies ==
    {RegistryDoc(<<[title |-> <<"I","C","M","P"," ","T","y","p","e"," ","N","u","m","b","e","r","s">>, records |-> <<Record(v, <<"E","c","h","o">>)>>]>>) :
        v \in ValueTexts}

docRecords ==
    {Record(<<"3">>, <<"D","e","s","t","i","n","a","t","i","o","n"," ","U","n","r","e","a","c","h","a","b","l","e">>), Record(<<"1">>, <<"U","n","a","s","s","i","g","n","e","d">>),
     Record(<<"a","b","c">>, <<"I","C","M","P"," ","M","e","s","s","a","g","e","s">>), Record(<<"0">>, <<"I","P">>), Record(<<"7">>, <<>>)}

shortRecords == {Record(<<"3">>, <<"D","e","s","t","i","n","a","t","i","o","n"," ","U","n","r","e","a","c","h","a","b","l","e">>), Record(<<"0">>, <<"I","P">>)}

docTitles == {<<"I","C","M","P"," ","T","y","p","e"," ","N","u","m","b","e","r","s">>, <<"C","o","d","e"," ","F","i","e","l","d","s">>, <<"t","y","p","e">>, <<"T","Y","P","E">>, <<"t","Y","p","e">>}

SeqsUpTo(S, n) == UNION {[1..k -> S] : k \in 0..n}

\* Documents of one sub-registry with up to MaxRecs records, and documents of
\* up to MaxRegs sub-registries with at most one record each.
DocBodies ==
    {RegistryDoc(<<[title |-> <<"I","C","M","P"," ","T","y","p","e"," ","N","u","m","b","e","r","s">>, records |-> rs]>>) :
        rs \in SeqsUpTo(docRecords, MaxRecs)}
    \cup {RegistryDoc(regs) :
            regs \in SeqsUpTo([title : docTitles, records : SeqsUpTo(shortRecords, 1)],
                              MaxRegs)}

MalformedBody == NoBody
OtherRootBody == [RegistryDoc(<<>>) EXCEPT !.root = "html"]

\* What the server may answer for each registry.
ResponseBodies(i) ==
    {MalformedBody, OtherRootBody} \cup
    (IF i = 1
     THEN {RegistryDoc(<<[title |-> <<"C","o","d","e"," ","F","i","e","l","d","s">>, records |-> <<>>],
                         [title |-> <<"I","C","M","P"," ","T","y","p","e"," ","N","u","m","b","e","r","s">>,
                          records |-> <<Record(<<"3">>, <<"D","e","s","t","i","n","a","t","i","o","n"," ","U","n","r","e","a","c","h","a","b","l","e">>),
                                        Record(<<"1">>, <<"U","n","a","s","s","i","g","n","e","d">>)>>]>>),
           RegistryDoc(<<[title |-> <<"C","o","d","e"," ","F","i","e","l","d","s">>,
                          records |-> <<Record(<<"0">>, <<"N","o"," ","C","o","d","e">>)>>]>>),
           RegistryDoc(<<[title |-> <<"t","y","p","e">>,
                          records |-> <<Record(<<"8">>, <<"W","h","o","&","W","h","e","r","e">>)>>]>>)}
     ELSE {RegistryDoc(<<[title |-> <<"A","s","s","i","g","n","e","d"," ","I","n","t","e","r","n","e","t"," ","P","r","o","t","o","c","o","l"," ","N","u","m","b","e","r","s">>,
                          records |-> <<Record(<<"6">>, <<"T","C","P">>),
                                        Record(<<"1","2","4">>, <<"I","S","I","S"," ","o","v","e","r"," ","I","P","v","4">>)>>]>>),
           RegistryDoc(<<>>),
           RegistryDoc(<<[title |-> <<"A","s","s","i","g","n","e","d"," ","I","n","t","e","r","n","e","t"," ","P","r","o","t","o","c","o","l"," ","N","u","m","b","e","r","s">>,
                          records |-> <<[value |-> <<"4">>, name |-> <<"A","&","B">>,
                                         descr |-> <<>>]>>]>>)})

StatusCodes == {200, 404, 500}

\* ------------------------------------------------------------ main
\* var registries
registries == <<"parseICMPv4Parameters", "parseProtocolNumbers">>

\* r.parse(&bb, resp.Body)
RegistryParse(i, body) ==
    IF registries[i] = "parseICMPv4Parameters" THEN parseICMPv4Parameters(body)
    ELSE parseProtocolNumbers(body)

NoResponse == [StatusCode |-> 0, Body |-> NoBody]
NoResult == [err |-> FALSE, out |-> <<>>]

\* format.Source(bb.Bytes()) succeeds.  The responses of the model carry
\* letters, digits, spaces and "&": the declarations printed from them are Go
\* syntax unless a declared name has an "&".
FormatOK(buf) ==
    \A i \in 1..Len(buf) :
        buf[i].kind \in {"icmpConst", "protocolConst"} => "&" \notin Range(buf[i].name)

\* The three Fprintf of main before the loop.
Preamble ==
    <<[kind |-> "command"], [kind |-> "generated"], [kind |-> "blank"],
      [kind |-> "package"], [kind |-> "blank"]>>

\* The width of a value printed with %d.
ValueWidth(v) == Len(v.mag) + (IF v.neg THEN 1 ELSE 0)

\* A comment without the white space at its end.
TrimRight(s) ==
    LET keep == {i \in 1..Len(s) : s[i] \notin WhiteSpace}
    IN  IF keep = {} THEN <<>> ELSE SubSeq(s, 1, Max(keep))

\* The lines of the block that line i of buf belongs to.
BlockOf(buf, i) ==
    LET lo == Max({j \in 1..i : buf[j].kind \in {"constOpen", "mapOpen"}})
        hi == Min({j \in i..Len(buf) : buf[j].kind \in {"constClose", "mapClose"}})
    IN  (lo + 1)..(hi - 1)

\* Line i of buf as format.Source prints it: no line, or one line.
\* A block without lines is printed on one line; the lines of a block are
\* indented by one tab and their names, values and comments are aligned in
\* columns over the block; a comment loses the white space at its end; of
\* several blank lines one is kept, and none at the end of the text.
FormatLine(buf, i) ==
    LET l        == buf[i]
        nameCol  == Max({Len(buf[j].name) : j \in BlockOf(buf, i)})
        valueCol == Max({ValueWidth(buf[j].value) : j \in BlockOf(buf, i)})
    IN  IF l.kind = "constOpen"
        THEN IF buf[i + 1].kind = "constClose" THEN <<[kind |-> "constEmpty"]>> ELSE <<l>>
        ELSE IF l.kind = "mapOpen"
        THEN IF buf[i + 1].kind = "mapClose" THEN <<[kind |-> "mapEmpty"]>> ELSE <<l>>
        ELSE IF l.kind = "constClose"
        THEN IF buf[i - 1].kind = "constOpen" THEN <<>> ELSE <<l>>
        ELSE IF l.kind = "mapClose"
        THEN IF buf[i - 1].kind = "mapOpen" THEN <<>> ELSE <<l>>
        ELSE IF l.kind = "blank"
        THEN IF \/ \A j \in i..Len(buf) : buf[j].kind = "blank"
                \/ (i > 1 /\ buf[i - 1].kind = "blank")
             THEN <<>> ELSE <<l>>
        ELSE IF l.kind = "icmpConst"
        THEN <<[kind |-> "icmpConst", indent |-> 1, name |-> l.name,
                namePad |-> nameCol - Len(l.name) + 1, type |-> <<"I","C","M","P","T","y","p","e">>,
                value |-> l.value, valuePad |-> valueCol - ValueWidth(l.value) + 1,
                comment |-> TrimRight(l.comment)]>>
        ELSE IF l.kind = "protocolConst"
        THEN <<[kind |-> "protocolConst", indent |-> 1, name |-> l.name,
                namePad |-> nameCol - Len(l.name) + 1,
                value |-> l.value, valuePad |-> valueCol - ValueWidth(l.value) + 1,
                comment |-> TrimRight(l.comment)]>>
        ELSE IF l.kind = "icmpMap"
        THEN <<[kind |-> "icmpMap", indent |-> 1, value |-> l.value,
                valuePad |-> valueCol - ValueWidth(l.value) + 1, text |-> l.text]>>
        ELSE IF l.kind = "header"
        THEN <<[l EXCEPT !.updated = TrimRight(@)]>>
        ELSE <<l>>

\* b, _ := format.Source(bb.Bytes()), when it succeeds
FormatSource(buf) == Flatten([i \in 1..Len(buf) |-> FormatLine(buf, i)])

Init ==
    /\ pc = "get"
    /\ ri = 1
    /\ resp = NoResponse
    /\ bb = Preamble
    /\ stdout = <<>>
    /\ stderr = <<>>
    /\ exitCode = -1
    /\ bodies = [i \in 1..Len(registries) |-> "none"]
    /\ deferred = <<>>
    /\ arg = NoBody
    /\ w = NoResult

\* os.Exit(1) after the error was printed: deferred calls do not run.
Exit1(msg) ==
    /\ stderr' = Append(stderr, msg)
    /\ exitCode' = 1
    /\ pc' = "exited"

\* http.Get(r.url) returns an error.
HttpGetFails ==
    /\ pc = "get"
    /\ Exit1("transport")
    /\ UNCHANGED <<ri, resp, bb, stdout, bodies, deferred, arg, w>>

\* http.Get(r.url) returns a response; defer resp.Body.Close().
HttpGet ==
    /\ pc = "get"
    /\ \E st \in StatusCodes, body \in ResponseBodies(ri) :
          resp' = [StatusCode |-> st, Body |-> body]
    /\ bodies' = [bodies EXCEPT ![ri] = "open"]
    /\ deferred' = <<ri>> \o deferred
    /\ pc' = "status"
    /\ UNCHANGED <<ri, bb, stdout, stderr, exitCode, arg, w>>

StatusExits ==
    /\ Exit1("status")
    /\ UNCHANGED <<ri, resp, bb, stdout, bodies, deferred, arg, w>>

StatusPasses ==
    /\ pc' = "parse"
    /\ UNCHANGED <<ri, resp, bb, stdout, stderr, exitCode, bodies, deferred, arg, w>>

\* The status test, were every status taken for http.StatusOK.
CheckStatusIgnored ==
    /\ pc = "status"
    /\ StatusPasses

\* if resp.StatusCode != http.StatusOK
CheckStatus ==
    /\ pc = "status"
    /\ IF resp.StatusCode # 200 THEN StatusExits ELSE StatusPasses

\* r.parse(&bb, resp.Body), the blank line after it, and the loop's step.
Parse ==
    /\ pc = "parse"
    /\ LET res == RegistryParse(ri, resp.Body)
       IN  IF res.err
           THEN /\ Exit1("decode")
                /\ UNCHANGED <<ri, bb>>
           ELSE /\ bb' = bb \o res.out \o <<[kind |-> "blank"]>>
                /\ ri' = ri + 1
                /\ pc' = IF ri = Len(registries) THEN "format" ELSE "get"
                /\ UNCHANGED <<stderr, exitCode>>
    /\ UNCHANGED <<resp, stdout, bodies, deferred, arg, w>>

\* format.Source(bb.Bytes())
Format ==
    /\ pc = "format"
    /\ IF FormatOK(bb)
       THEN /\ pc' = "write"
            /\ UNCHANGED <<stderr, exitCode>>
       ELSE Exit1("format")
    /\ UNCHANGED <<ri, resp, bb, stdout, bodies, deferred, arg, w>>

\* os.Stdout.Write(b)
Write ==
    /\ pc = "write"
    /\ stdout' = Append(stdout, FormatSource(bb))
    /\ pc' = "return"
    /\ UNCHANGED <<ri, resp, bb, stderr, exitCode, bodies, deferred, arg, w>>

\* main returns: the deferred Close calls run, and the process exits with 0.
Return ==
    /\ pc = "return"
    /\ bodies' = [i \in DOMAIN bodies |->
                    IF i \in Range(deferred) THEN "closed" ELSE bodies[i]]
    /\ deferred' = <<>>
    /\ exitCode' = 0
    /\ pc' = "done"
    /\ UNCHANGED <<ri, resp, bb, stdout, stderr, arg, w>>

Next ==
    \/ HttpGetFails
    \/ HttpGet
    \/ CheckStatus
    \/ Parse
    \/ Format
    \/ Write
    \/ Return

Spec == Init /\ [][Next]_vars

\* ------------------------------------------------------------ the parse functions alone
\* One call of each parse function on one document.
InitCall(docs) ==
    /\ pc = "call"
    /\ arg \in docs
    /\ w = NoResult
    /\ ri = 1
    /\ resp = NoResponse
    /\ bb = Preamble
    /\ stdout = <<>>
    /\ stderr = <<>>
    /\ exitCode = -1
    /\ bodies = [i \in 1..Len(registries) |-> "none"]
    /\ deferred = <<>>

CallParseICMPv4Parameters ==
    /\ pc = "call"
    /\ w' = parseICMPv4Parameters(arg)
    /\ pc' = "icmp"
    /\ UNCHANGED <<ri, resp, bb, stdout, stderr, exitCode, bodies, deferred, arg>>

CallParseProtocolNumbers ==
    /\ pc = "call"
    /\ w' = parseProtocolNumbers(arg)
    /\ pc' = "protocol"
    /\ UNCHANGED <<ri, resp, bb, stdout, stderr, exitCode, bodies, deferred, arg>>

NextParse == CallParseICMPv4Parameters \/ CallParseProtocolNumbers

\* The parse functions on documents of several records and sub-registries
\* and on every value text.
InitParse == InitCall(DocBodies \cup ValueBodies)

SpecParse == InitParse /\ [][NextParse]_vars

\* The parse functions on every label.
InitLabel == InitCall(LabelBodies)

SpecLabel == InitLabel /\ [][NextParse]_vars

\* ------------------------------------------------------------ properties
Lines(out, k) == SelectSeq(out, LAMBDA l : l.kind = k)

\* The records escape canonicalizes, as decoded from the document arg.
PickedRecords ==
    LET icp == DecodeICMP(arg)
        id  == IF icp.err THEN 0 ELSE PickRegistry(icp.Registries)
    IN  IF id = 0 THEN <<>> ELSE icp.Registries[id].Records

\* The records of PickedRecords that escape does not skip.
UnskippedRecords == SelectSeq(PickedRecords, LAMBDA r : ~icmpSkipped(r.Descr))

NonEmpty(ss) == SelectSeq(ss, LAMBDA s : s # <<>>)

OneRecord == Len(arg.regs) = 1 /\ Len(arg.regs[1].records) = 1
TheRecord == arg.regs[1].records[1]

\* C1: once an error was reported the process has exited with status 1 and
\* standard output is empty; the run passes a stage only when the stage
\* succeeded; standard output is written at most once, and only with the
\* formatted text of the buffer that holds the blocks of both registries
\* (every declaration of the buffer, indented, and no blank line at the end).
C1_FailFast ==
    /\ stderr # <<>> => pc = "exited"
    /\ pc = "exited" => exitCode = 1 /\ stdout = <<>> /\ Len(stderr) = 1
    /\ pc \in {"get", "status", "parse", "format", "write", "return"} => exitCode = -1
    /\ pc = "parse" => resp.StatusCode = 200
    /\ Len(Lines(bb, "constOpen")) = ri - 1
    /\ Len(stdout) <= 1
    /\ stdout # <<>> =>
          /\ pc \in {"return", "done"}
          /\ ri = Len(registries) + 1
          /\ resp.StatusCode = 200
          /\ FormatOK(bb)
          /\ Len(Lines(stdout[1], "header")) = Len(Lines(bb, "header"))
          /\ Len(Lines(stdout[1], "icmpConst")) = Len(Lines(bb, "icmpConst"))
          /\ Len(Lines(stdout[1], "icmpMap")) = Len(Lines(bb, "icmpMap"))
          /\ Len(Lines(stdout[1], "protocolConst")) = Len(Lines(bb, "protocolConst"))
          /\ stdout[1][Len(stdout[1])].kind \in {"constClose", "constEmpty"}
          /\ \A i \in 1..Len(stdout[1]) :
                stdout[1][i].kind \in {"icmpConst", "protocolConst", "icmpMap"} =>
                    stdout[1][i].indent = 1
    /\ pc = "done" => exitCode = 0 /\ Len(stdout) = 1

\* C1: the formatting pass fails after both registries were emitted.
C1_Witness ==
    /\ pc = "exited"
    /\ stderr = <<"format">>
    /\ ri = Len(registries) + 1
    /\ exitCode = 1
    /\ stdout = <<>>

\* C9 as stated: when the process has terminated every body obtained is
\* closed, and no body is still open when the next registry is fetched.
C9_BodiesReleased ==
    /\ pc \in {"exited", "done"} => \A i \in DOMAIN bodies : bodies[i] # "open"
    /\ pc = "get" => \A i \in DOMAIN bodies : bodies[i] # "open"

exactWords == {<<"R","e","s","e","r","v","e","d">>, <<"U","n","a","s","s","i","g","n","e","d">>, <<"D","e","p","r","e","c","a","t","e","d">>, <<"E","x","p","e","r","i","m","e","n","t">>, <<"e","x","p","e","r","i","m","e","n","t">>}

HasExactWord(d) == \E x \in exactWords : Contains(d, x)

HasWordAnyCaseExperiment(d) ==
    \/ \E x \in {<<"R","e","s","e","r","v","e","d">>, <<"U","n","a","s","s","i","g","n","e","d">>, <<"D","e","p","r","e","c","a","t","e","d">>} : Contains(d, x)
    \/ Contains(ToLower(d), <<"e","x","p","e","r","i","m","e","n","t">>)

\* The document without the records whose description has one of the words,
\* "experiment" counting in any letter case when anyCase.
WithoutRecords(body, anyCase) ==
    [body EXCEPT !.regs =
        [i \in 1..Len(body.regs) |->
           [body.regs[i] EXCEPT !.records =
               SelectSeq(@, LAMBDA r : ~IF anyCase THEN HasWordAnyCaseExperiment(r.descr)
                                        ELSE HasExactWord(r.descr))]]]

\* C2 as stated: the records whose description contains "Reserved",
\* "Unassigned", "Deprecated" or "experiment" in any letter case leave no
\* trace in the output: it is the output of the document without them.
C2_AnyCaseFiltered ==
    pc = "icmp" => w = parseICMPv4Parameters(WithoutRecords(arg, TRUE))

\* C2, amended: the records whose description contains "Reserved",
\* "Unassigned", "Deprecated", "Experiment" or "experiment", spelled exactly
\* so, leave no trace in the output (no constant, no lookup entry): it is the
\* output of the document without them, and no emitted comment has the words.
C2_ExactWordsFiltered ==
    pc = "icmp" =>
        /\ w = parseICMPv4Parameters(WithoutRecords(arg, FALSE))
        /\ \A i \in 1..Len(w.out) :
              w.out[i].kind = "icmpConst" => ~HasExactWord(w.out[i].comment)

\* C2: a record with "experiment" in its description was parsed and nothing
\* was emitted for it.
C2_Witness ==
    /\ pc = "icmp"
    /\ OneRecord
    /\ Contains(TheRecord.descr, <<"e","x","p","e","r","i","m","e","n","t">>)
    /\ ~w.err
    /\ Lines(w.out, "icmpConst") = <<>>
    /\ Lines(w.out, "icmpMap") = <<>>

\* The trimmed descriptions of the unskipped records.
TrimmedDescrs ==
    [i \in 1..Len(UnskippedRecords) |-> TrimSpace(JoinLines(UnskippedRecords[i].Descr))]

\* The names of the constants for the identifiers ids: the non-empty ones.
ICMPNames(ids) ==
    LET kept == NonEmpty(ids)
    IN  [i \in 1..Len(kept) |-> <<"I","C","M","P","T","y","p","e">> \o kept[i]]

EmittedNames(k) == [i \in 1..Len(Lines(w.out, k)) |-> Lines(w.out, k)[i].name]

\* Position i of s lies in an occurrence of "Messages", "Message" or "ICMP".
InRemovedWord(s, i) ==
    \E x \in {<<"M","e","s","s","a","g","e","s">>, <<"M","e","s","s","a","g","e">>, <<"I","C","M","P">>} :
        \E j \in 1..i : HasPrefixAt(s, j, x) /\ i < j + Len(x)

\* All the rules applied to s itself, nothing being examined twice.
ICMPRulesAtOnce(s) ==
    Flatten([i \in 1..Len(s) |->
                IF InRemovedWord(s, i) THEN <<>>
                ELSE IF s[i] = "+" THEN <<"P">>
                ELSE IF s[i] \in {"-", "/", ".", " "} THEN <<>>
                ELSE <<s[i]>>])

\* C4 as stated: the identifier of every unskipped record is the result of
\* the rules applied one after the other, each to the output of the one before.
C4_RulesInSequence ==
    pc = "icmp" => EmittedNames("icmpConst")
        = ICMPNames([i \in 1..Len(TrimmedDescrs) |->
                        ReplaceInSequence(icmpReplacements, TrimmedDescrs[i])])

\* C4, amended: the identifier of every unskipped record is the trimmed
\* description with every occurrence in it of "Messages", "Message" and "ICMP"
\* removed, every "+" turned into "P" and every "-", "/", ".", " " removed, all
\* in one pass over the description: text that a removal joins is not
\* examined again.
C4_RulesInOnePass ==
    pc = "icmp" => EmittedNames("icmpConst")
        = ICMPNames([i \in 1..Len(TrimmedDescrs) |-> ICMPRulesAtOnce(TrimmedDescrs[i])])

\* C4: removing "Messages" joined "IC" and "MP", and "ICMP" stayed.
C4_Witness ==
    /\ pc = "icmp"
    /\ OneRecord
    /\ TheRecord.descr = <<"I","C","M","e","s","s","a","g","e","s","M","P">>
    /\ EmittedNames("icmpConst") = <<<<"I","C","M","P","T","y","p","e","I","C","M","P">>>>

\* The canonical name C5 states for the raw name.
ProtocolNameInSequence(name) ==
    IF name = <<"I","S","I","S"," ","o","v","e","r"," ","I","P","v","4">> THEN <<"I","S","I","S">>
    ELSE IF name = <<"m","a","n","e","t">> THEN <<"M","A","N","E","T">>
    ELSE ReplaceInSequence(protocolReplacements, TrimSpace(name))

\* C5: the names of the protocol constants after the first are, in document
\* order, the non-empty names that the two exceptions and otherwise the
\* rules applied in sequence to the trimmed name yield.
C5_ProtocolNames ==
    (pc = "protocol" /\ ~w.err) =>
        LET pn   == DecodeProtocol(arg)
            kept == NonEmpty([i \in 1..Len(pn.Records) |->
                                 ProtocolNameInSequence(pn.Records[i].Name)])
        IN  Tail(EmittedNames("protocolConst"))
               = [i \in 1..Len(kept) |-> <<"i","a","n","a","P","r","o","t","o","c","o","l">> \o kept[i]]

\* C5: a name in which "-over-" and "-in-" share a hyphen was canonicalized.
C5_Witness ==
    /\ pc = "protocol"
    /\ OneRecord
    /\ TheRecord.name = <<"-","o","v","e","r","-","i","n","-">>
    /\ EmittedNames("protocolConst") = <<<<"i","a","n","a","P","r","o","t","o","c","o","l","I","P">>, <<"i","a","n","a","P","r","o","t","o","c","o","l","o","v","e","r","i","n">>>>

\* C3: after a successful decode the first protocol constant is the added
\* record, named IP with value 0, and the constants after it are the decoded
\* records with a non-empty canonical name, in document order.
C3_PseudoIPFirst ==
    (pc = "protocol" /\ ~w.err) =>
        LET cs == Lines(w.out, "protocolConst")
        IN  /\ cs # <<>>
            /\ cs[1].name = <<"i","a","n","a","P","r","o","t","o","c","o","l","I","P">>
            /\ cs[1].value = Zero
            /\ cs[1].comment = <<"I","P","v","4"," ","e","n","c","a","p","s","u","l","a","t","i","o","n",","," ","p","s","e","u","d","o"," ","p","r","o","t","o","c","o","l"," ","n","u","m","b","e","r">>
            /\ Tail(cs) = protocolConstLines(protocolEscape(DecodeProtocol(arg)))

\* C3: a registry that has a record named IP itself, followed by another one.
C3_Witness ==
    /\ pc = "protocol"
    /\ Len(arg.regs) = 1
    /\ arg.regs[1].records = <<Record(<<"0">>, <<"I","P">>), Record(<<"3">>, <<"D","e","s","t","i","n","a","t","i","o","n"," ","U","n","r","e","a","c","h","a","b","l","e">>)>>
    /\ EmittedNames("protocolConst")
          = <<<<"i","a","n","a","P","r","o","t","o","c","o","l","I","P">>, <<"i","a","n","a","P","r","o","t","o","c","o","l","I","P">>, <<"i","a","n","a","P","r","o","t","o","c","o","l","D","e","s","t","i","n","a","t","i","o","n","U","n","r","e","a","c","h","a","b","l","e">>>>

\* The value text t is a digit string with an optional sign.
IsDecimal(t) ==
    LET ds == IF t # <<>> /\ t[1] \in {"+", "-"} THEN Tail(t) ELSE t
    IN  ds # <<>> /\ \A i \in 1..Len(ds) : ds[i] \in Range(DigitChars)

\* The integer a decimal text denotes.
Denoted(t) ==
    LET ds  == IF t[1] \in {"+", "-"} THEN Tail(t) ELSE t
        mag == Magnitude(ds)
    IN  [neg |-> t[1] = "-" /\ mag # <<0>>, mag |-> mag]

InInt64(v) ==
    IF v.neg THEN ~MagGreater(v.mag, MinInt64Mag) ELSE ~MagGreater(v.mag, MaxInt64Mag)

\* The value texts of the records that yield a constant, for either registry.
EmittedValueTexts ==
    IF pc = "icmp"
    THEN LET kept == SelectSeq(UnskippedRecords,
                        LAMBDA r : icmpReplace(TrimSpace(JoinLines(r.Descr))) # <<>>)
         IN  [i \in 1..Len(kept) |-> kept[i].Value]
    ELSE LET recs == DecodeProtocol(arg).Records
             kept == SelectSeq(recs, LAMBDA r : protocolName(r.Name) # <<>>)
         IN  <<<<"0">>>> \o [i \in 1..Len(kept) |-> kept[i].Value]

EmittedValues ==
    LET cs == Lines(w.out, IF pc = "icmp" THEN "icmpConst" ELSE "protocolConst")
    IN  [i \in 1..Len(cs) |-> cs[i].value]

\* C6: the value of every record is the integer its value text denotes
\* when the text parses, and 0 for every text that fails to parse, a digit
\* string too large for the int included (never a clamped bound); no value
\* text makes a parse function fail.
C6_ZeroOnParseFailure ==
    (pc \in {"icmp", "protocol"} /\ arg.wf /\ arg.root = "registry") =>
        /\ ~w.err
        /\ Len(EmittedValues) = Len(EmittedValueTexts)
        /\ \A i \in 1..Len(EmittedValues) :
              LET t == EmittedValueTexts[i]
                  v == EmittedValues[i]
              IN  IF IsDecimal(t) /\ InInt64(Denoted(t)) THEN v = Denoted(t)
                  ELSE v = Zero

\* The title has "type" in some letter case.
TitleMatchesAnyCase(title) == Contains(ToLower(title), <<"t","y","p","e">>)

\* The first of the sub-registries ids, 0 when there is none.
FirstOf(ids) == IF ids = {} THEN 0 ELSE Min(ids)

\* The canonical records of sub-registry id of arg.
CanonOf(id) ==
    IF id = 0 THEN <<>>
    ELSE [j \in 1..Len(arg.regs[id].records) |->
             canonICMPv4ParamRecord([Value |-> arg.regs[id].records[j].value,
                                     Descr |-> arg.regs[id].records[j].descr])]

\* The constants and the lookup entries are those of sub-registry id.
OutputIsOf(id) ==
    /\ ~w.err
    /\ Lines(w.out, "icmpConst") = icmpConstLines(CanonOf(id))
    /\ Lines(w.out, "icmpMap") = icmpMapLines(CanonOf(id))

\* C7 as stated: the output is that of the first sub-registry whose title
\* has "type" in any letter case, and of no sub-registry when there is none.
C7_FirstTitleAnyCase ==
    (pc = "icmp" /\ arg.wf /\ arg.root = "registry") =>
        OutputIsOf(FirstOf({i \in 1..Len(arg.regs) : TitleMatchesAnyCase(arg.regs[i].title)}))

\* C7, amended: the output is that of the first sub-registry in document
\* order whose title contains "Type" or "type", spelled exactly so ("TYPE" and
\* "tYpe" do not match), and of no other; when no title matches no constant
\* and no lookup entry is emitted and the parse function succeeds.
C7_FirstTitleExact ==
    (pc = "icmp" /\ arg.wf /\ arg.root = "registry") =>
        OutputIsOf(FirstOf({i \in 1..Len(arg.regs) :
                               \/ Contains(arg.regs[i].title, <<"T","y","p","e">>)
                               \/ Contains(arg.regs[i].title, <<"t","y","p","e">>)}))

\* C7: two sub-registries match, and the constants are those of the first.
C7_Witness ==
    /\ pc = "icmp"
    /\ Len(arg.regs) = 2
    /\ arg.regs[1] = [title |-> <<"t","y","p","e">>,
                      records |-> <<Record(<<"3">>, <<"D","e","s","t","i","n","a","t","i","o","n"," ","U","n","r","e","a","c","h","a","b","l","e">>)>>]
    /\ arg.regs[2] = [title |-> <<"I","C","M","P"," ","T","y","p","e"," ","N","u","m","b","e","r","s">>, records |-> <<Record(<<"0">>, <<"I","P">>)>>]
    /\ EmittedNames("icmpConst") = <<<<"I","C","M","P","T","y","p","e","D","e","s","t","i","n","a","t","i","o","n","U","n","r","e","a","c","h","a","b","l","e">>>>

\* C8: the lookup entries are as many as the constants and in the same
\* order, each with the value of its constant and the lowercased description;
\* the constants are those of the picked records whose identifier is not
\* empty, in document order.
C8_ConstantsAndLookup ==
    (pc = "icmp" /\ ~w.err) =>
        LET cs == Lines(w.out, "icmpConst")
            ms == Lines(w.out, "icmpMap")
            ps == SelectSeq([i \in 1..Len(PickedRecords) |->
                                 canonICMPv4ParamRecord(PickedRecords[i])],
                            LAMBDA p : p.Descr # <<>>)
        IN  /\ Len(ms) = Len(cs)
            /\ \A k \in 1..Len(cs) :
                  /\ ms[k].value = cs[k].value
                  /\ ms[k].text = ToLower(cs[k].comment)
            /\ Len(cs) = Len(ps)
            /\ \A k \in 1..Len(cs) :
                  /\ cs[k].name = <<"I","C","M","P","T","y","p","e">> \o ps[k].Descr
                  /\ cs[k].value = ps[k].Value
                  /\ cs[k].comment = ps[k].OrigDescr

\* C8: of three records the second is filtered; two constants and two
\* lookup entries are emitted, in document order.
C8_Witness ==
    /\ pc = "icmp"
    /\ Len(arg.regs) = 1
    /\ arg.regs[1].records = <<Record(<<"3">>, <<"D","e","s","t","i","n","a","t","i","o","n"," ","U","n","r","e","a","c","h","a","b","l","e">>),
                               Record(<<"1">>, <<"U","n","a","s","s","i","g","n","e","d">>), Record(<<"0">>, <<"I","P">>)>>
    /\ EmittedNames("icmpConst") = <<<<"I","C","M","P","T","y","p","e","D","e","s","t","i","n","a","t","i","o","n","U","n","r","e","a","c","h","a","b","l","e">>, <<"I","C","M","P","T","y","p","e","I","P">>>>
    /\ Lines(w.out, "icmpMap")
          = <<[kind |-> "icmpMap", value |-> [neg |-> FALSE, mag |-> <<3>>],
               text |-> <<"d","e","s","t","i","n","a","t","i","o","n"," ","u","n","r","e","a","c","h","a","b","l","e">>],
              [kind |-> "icmpMap", value |-> Zero, text |-> <<"i","p">>]>>

\* C10: no identifier emitted for either registry, the added IP record and
\* the two exceptions included, has one of the characters "+", "-", "/", ".",
\* " "; a newline of a description leaves no space in it.
C10_NoSeparatorInIdentifier ==
    (pc \in {"icmp", "protocol"} /\ ~w.err) =>
        \A i \in 1..Len(w.out) :
            w.out[i].kind \in {"icmpConst", "protocolConst"} =>
                Range(w.out[i].name) \cap {"+", "-", "/", ".", " "} = {}

\* C10: a description of two lines was canonicalized, the newline leaving
\* no space.
C10_Witness ==
    /\ pc = "icmp"
    /\ OneRecord
    /\ TheRecord.descr = <<"M","e","s","\n","+">>
    /\ EmittedNames("icmpConst") = <<<<"I","C","M","P","T","y","p","e","M","e","s","P">>>>

====
